---- MODULE Spec2Model ----
(***************************************************************************)
(* Model of src/extract_claims_to_csv.py: the page loop of                 *)
(* parse_pdf_to_rows, the row assembler assemble_rows_from_lines, and the  *)
(* regular expressions they rest on.                                       *)
(*                                                                         *)
(* A Python str is a sequence of one-character strings, so that stripping, *)
(* whitespace collapsing, joining and pattern matching are computed on the *)
(* characters as the code computes them.  The character "~" stands for the *)
(* non-breaking space U+00A0.  Optional[str] is a sequence of characters   *)
(* or None.                                                                *)
(***************************************************************************)
EXTENDS Integers, Sequences, FiniteSets, TLC

\* ------------------------------------------------------------ characters

None == <<"None">>

NBSP == "~"

Digit == {"0", "1", "2", "3", "4", "5", "6", "7", "8", "9"}

Upper == {"A", "B", "C", "D", "E", "F", "G", "H", "I", "J", "K", "L", "M",
          "N", "O", "P", "Q", "R", "S", "T", "U", "V", "W", "X", "Y", "Z"}

Lower == {"a", "b", "c", "d", "e", "f", "g", "h", "i", "j", "k", "l", "m",
          "n", "o", "p", "q", "r", "s", "t", "u", "v", "w", "x", "y", "z"}

\* \w
WordCh == Digit \cup Upper \cup Lower \cup {"_"}

\* [ \t]
Blank == {" ", "\t"}

\* \s, and what str.strip() and str.split() take for whitespace
Space == {" ", "\t", "\n"}

\* the character class [A-Z0-9 ] of the MessageCodes group
CodeCh == Upper \cup Digit \cup {" "}

Min(S) == CHOOSE x \in S : \A y \in S : x <= y

Max(S) == CHOOSE x \in S : \A y \in S : x >= y

\* ------------------------------------------------------------ str methods

\* s[i:] with i counted from 1
From(s, i) == SubSeq(s, i, Len(s))

\* the first index >= i of s that holds no character of class, Len(s)+1 if none
RECURSIVE Skip(_, _, _)
Skip(s, i, class) ==
    IF i <= Len(s) /\ s[i] \in class THEN Skip(s, i + 1, class) ELSE i

\* the last index <= i of s that holds no character of class, 0 if none
RECURSIVE SkipBack(_, _, _)
SkipBack(s, i, class) ==
    IF i >= 1 /\ s[i] \in class THEN SkipBack(s, i - 1, class) ELSE i

LStrip(s) == From(s, Skip(s, 1, Space))

RStrip(s) == SubSeq(s, 1, SkipBack(s, Len(s), Space))

\* str.strip()
Strip(s) == RStrip(LStrip(s))

\* pieces[lo] \o ... \o pieces[hi], halving the range
RECURSIVE Concat(_, _, _)
Concat(pieces, lo, hi) ==
    IF lo > hi THEN <<>>
    ELSE IF lo = hi THEN pieces[lo]
    ELSE Concat(pieces, lo, (lo + hi) \div 2)
         \o Concat(pieces, (lo + hi) \div 2 + 1, hi)

\* whether s holds the literal lit at index i
LitAt(s, i, lit) ==
    /\ i >= 1
    /\ i + Len(lit) - 1 <= Len(s)
    /\ \A k \in 1..Len(lit) : s[i + k - 1] = lit[k]

\* \b before index i of s (i = Len(s)+1: at the end)
WordBoundary(s, i) ==
    LET before == i > 1 /\ i - 1 <= Len(s) /\ s[i - 1] \in WordCh
        after  == i >= 1 /\ i <= Len(s) /\ s[i] \in WordCh
    IN  before # after

\* str.replace(old, new) for a one-character old
Replace(s, old, new) ==
    Concat([k \in 1..Len(s) |-> IF s[k] = old THEN new ELSE <<s[k]>>], 1, Len(s))

\* the first index >= i of s that holds a character of class, Len(s)+1 if none
RECURSIVE Find(_, _, _)
Find(s, i, class) ==
    IF i <= Len(s) /\ s[i] \notin class THEN Find(s, i + 1, class) ELSE i

\* the lines of text[i:]
RECURSIVE SplitLinesFrom(_, _)
SplitLinesFrom(text, i) ==
    IF i > Len(text) THEN <<>>
    ELSE <<SubSeq(text, i, Find(text, i, {"\n"}) - 1)>>
         \o SplitLinesFrom(text, Find(text, i, {"\n"}) + 1)

\* str.splitlines(): the lines of a text, a final line break adding no line
SplitLines(text) == SplitLinesFrom(text, 1)

\* sep.join(parts)
Join(sep, parts) ==
    Concat([k \in 1..Len(parts) |-> IF k = 1 THEN parts[1] ELSE sep \o parts[k]],
           1, Len(parts))

\* the tokens of s[i:], where i is the end of s or holds no whitespace
RECURSIVE SplitFrom(_, _)
SplitFrom(s, i) ==
    IF i > Len(s) THEN <<>>
    ELSE <<SubSeq(s, i, Find(s, i, Space) - 1)>>
         \o SplitFrom(s, Skip(s, Find(s, i, Space), Space))

\* str.split(): the maximal runs of non-whitespace characters
Split(s) == SplitFrom(s, Skip(s, 1, Space))

\* re.sub(r"[ \t]{2,}", " ", ln): a run of two or more blanks becomes one
\* space (its first character is replaced, the others dropped); a single blank,
\* a tab too, stays as it is
CollapseBlanks(ln) ==
    Concat([k \in 1..Len(ln) |->
              IF ln[k] \notin Blank THEN <<ln[k]>>
              ELSE IF k > 1 /\ ln[k - 1] \in Blank THEN <<>>
              ELSE IF k < Len(ln) /\ ln[k + 1] \in Blank THEN <<" ">>
              ELSE <<ln[k]>>],
           1, Len(ln))

\* re.sub(r"\s+", " ", buffer): every run of whitespace becomes one space
SubSpaces(s) ==
    Concat([k \in 1..Len(s) |->
              IF s[k] \notin Space THEN <<s[k]>>
              ELSE IF k > 1 /\ s[k - 1] \in Space THEN <<>>
              ELSE <<" ">>],
           1, Len(s))

\* ------------------------------------------------------------ patterns

\* the number of digits of s from index i on
DigitRun(s, i) == Skip(s, i, Digit) - i

\* the index after an optional character c at index i
Opt(s, i, c) == IF i <= Len(s) /\ s[i] = c THEN i + 1 ELSE i

\* the index after the groups (?:,\d{3})* taken greedily from index i
RECURSIVE SkipThousands(_, _)
SkipThousands(s, i) ==
    IF i <= Len(s) /\ s[i] = "," /\ DigitRun(s, i + 1) >= 3
    THEN SkipThousands(s, i + 4)
    ELSE i

\* the index after (?:\.\d{2})? taken greedily from index i
SkipCents(s, i) ==
    IF i <= Len(s) /\ s[i] = "." /\ DigitRun(s, i + 1) >= 2 THEN i + 3 ELSE i

\* CURRENCY = \(?-?\$?(?:\d{1,3}(?:,\d{3})*|\d+)(?:\.\d{2})?\)?
\* Whether the whole of t is one CURRENCY token: what the pattern must match
\* where SERVICE_ROW_RE puts it between two \s+.
IsCurrency(t) ==
    LET p == Opt(t, Opt(t, Opt(t, 1, "("), "-"), "$")
        d == DigitRun(t, p)
        tail(q) == Opt(t, SkipCents(t, q), ")") = Len(t) + 1
    IN  /\ d >= 1
        /\ \/ tail(p + d)                                   \* \d+
           \/ d <= 3 /\ tail(SkipThousands(t, p + d))       \* \d{1,3}(?:,\d{3})*

\* CurrencyEnd with the fault "the dollar sign is not optional": \(?-?\$ ...
CurrencyEndDollar(s, i) ==
    LET p == Opt(s, Opt(s, i, "("), "-")
        d == IF p <= Len(s) /\ s[p] = "$" THEN DigitRun(s, p + 1) ELSE 0
        q == p + 1 + (IF d > 3 THEN 3 ELSE d)
    IN  IF d = 0 THEN 0
        ELSE Opt(s, SkipCents(s, SkipThousands(s, q)), ")")

\* The index after the match of CURRENCY that a search finds starting at index
\* i, or 0 when it matches nothing there.  Searching, every part after the first
\* digit is optional, so the first alternative always succeeds, greedily.
CurrencyEnd(s, i) ==
    LET p == Opt(s, Opt(s, Opt(s, i, "("), "-"), "$")
        d == DigitRun(s, p)
        q == p + (IF d > 3 THEN 3 ELSE d)
    IN  IF d = 0 THEN 0
        ELSE Opt(s, SkipCents(s, SkipThousands(s, q)), ")")

\* len(CURRENCY_ANY_RE.findall(s[i:])), capped at cap (the caller asks ">= 3"):
\* the scan takes the leftmost match from i and goes on after it
RECURSIVE CountCurrency(_, _, _)
CountCurrency(s, i, cap) ==
    LET M == {k \in i..Len(s) : CurrencyEnd(s, k) # 0}
    IN  IF cap = 0 \/ M = {} THEN 0
        ELSE 1 + CountCurrency(s, CurrencyEnd(s, Min(M)), cap - 1)

\* \d{2}/\d{2}/\d{4} at index i of s
DateAt(s, i) ==
    /\ i + 9 <= Len(s)
    /\ \A k \in {0, 1, 3, 4, 6, 7, 8, 9} : s[i + k] \in Digit
    /\ s[i + 2] = "/"
    /\ s[i + 5] = "/"

\* DATE_START_RE.match(line): ^\d{2}/\d{2}/\d{4}\b
DATE_START_RE(line) == DateAt(line, 1) /\ WordBoundary(line, 11)

\* the MessageCodes group: [A-Z0-9 ]{1,40} up to the end
CodesMaxLen == 40

IsCodes(c) ==
    /\ Len(c) >= 1
    /\ Len(c) <= CodesMaxLen
    /\ \A k \in 1..Len(c) : c[k] \in CodeCh

\* whether the tokens t match with the Service group ending at token j
RowTailAt(t, j) ==
    /\ IsCurrency(t[j + 1])
    /\ IsCurrency(t[j + 2])
    /\ IsCurrency(t[j + 3])
    /\ IsCodes(Join(<<" ">>, SubSeq(t, j + 4, Len(t))))

\* the six groups when the Service group ends at token j
RowGroups(t, j) ==
    [matched        |-> TRUE,
     ServiceDate    |-> t[1],
     Service        |-> Join(<<" ">>, SubSeq(t, 2, j)),
     ProviderBilled |-> t[j + 1],
     DMBA_Paid      |-> t[j + 2],
     YourResp       |-> t[j + 3],
     MessageCodes   |-> Join(<<" ">>, SubSeq(t, j + 4, Len(t)))]

\* RowLazy with the fault "(?P<Service>.+) greedy": the longest Service group
RowGreedy(t, J) == IF J = {} THEN [matched |-> FALSE] ELSE RowGroups(t, Max(J))

\* the match with the shortest Service group among the ends J that match
RowLazy(t, J) == IF J = {} THEN [matched |-> FALSE] ELSE RowGroups(t, Min(J))

\* the match of the pattern on the tokens t of the line
RowMatch(t) ==
    IF Len(t) < 6 \/ ~(DateAt(t[1], 1) /\ Len(t[1]) = 10)
    THEN [matched |-> FALSE]
    ELSE RowLazy(t, {j \in 2..(Len(t) - 4) : RowTailAt(t, j)})

\* SERVICE_ROW_RE.match(one_line) for a whitespace-normalized one_line (single
\* spaces, stripped: every string the code hands it).  Every \s+ of the pattern
\* then matches exactly one space, so the date, the three amounts and the codes
\* start and end at token boundaries; the lazy Service group takes the fewest
\* tokens for which the rest matches.  None, or the six groups.
SERVICE_ROW_RE(one_line) == RowMatch(Split(one_line))

\* ------------------------------------------------------------ utils

\* Decimal(s) succeeds: an optional sign, digits with an optional point
IsDecimal(s) ==
    LET p == Opt(s, 1, "-")
        d == DigitRun(s, p)
        q == p + d
        f == IF q <= Len(s) /\ s[q] = "." THEN DigitRun(s, q + 1) ELSE 0
    IN  /\ d + f >= 1
        /\ \/ q = Len(s) + 1
           \/ s[q] = "." /\ q + f = Len(s)

\* f"{Decimal(s):.2f}" for a decimal s of at most two decimals (CURRENCY allows
\* none or two, so nothing is ever rounded): the sign kept, the leading zeros
\* of the integer part dropped, the decimals padded to two.
FormatDecimal2(s) ==
    LET p == Opt(s, 1, "-")
        d == DigitRun(s, p)
        z == Skip(s, p, {"0"})
        int == IF z >= p + d THEN <<"0">> ELSE SubSeq(s, z, p + d - 1)
        frac == SubSeq(s, p + d + 1, Len(s))
        two == IF Len(frac) >= 2 THEN SubSeq(frac, 1, 2)
               ELSE IF Len(frac) = 1 THEN frac \o <<"0">>
               ELSE <<"0", "0">>
    IN  SubSeq(s, 1, p - 1) \o int \o <<".">> \o two

\* if s.startswith("$"): s = s[1:]
DropDollar(s) == IF s # <<>> /\ s[1] = "$" THEN Tail(s) ELSE s

\* if s.startswith("(") and s.endswith(")"): s = "-" + s[1:-1]
ParenToMinus(s) ==
    IF s # <<>> /\ s[1] = "(" /\ s[Len(s)] = ")"
    THEN <<"-">> \o SubSeq(s, 2, Len(s) - 1)
    ELSE s

\* try: return f"{Decimal(s):.2f}"  except Exception: return s
DecimalOrSame(s) == IF IsDecimal(s) THEN FormatDecimal2(s) ELSE s

\* s before the try: stripped, without separators, dollar signs and wrapping
\* parentheses
StripMoney(val) ==
    Replace(ParenToMinus(DropDollar(Replace(Strip(val), ",", <<>>))), "$", <<>>)

_money_to_str(val) == DecimalOrSame(StripMoney(val))

\* raw_text is what page.extract_text() returned: a text or None
CleanLines(lns) == [k \in 1..Len(lns) |-> Strip(CollapseBlanks(lns[k]))]

\* normalize_page_text with the fault "the non-breaking spaces are replaced
\* after the lines are cleaned"
NormalizeThenReplace(raw_text) ==
    [k \in 1..Len(CleanLines(SplitLines(IF raw_text = None THEN <<>> ELSE raw_text)))
       |-> Replace(CleanLines(SplitLines(IF raw_text = None THEN <<>>
                                         ELSE raw_text))[k],
                   NBSP, <<" ">>)]

normalize_page_text(raw_text) ==
    CleanLines(SplitLines(Replace(IF raw_text = None THEN <<>> ELSE raw_text,
                                  NBSP, <<" ">>)))

\* ------------------------------------------------------------ the assembler

\* the number of currency tokens try_finalize asks for
MinCurrencyTokens == 3

\* re.sub(r"\s+", " ", buffer).strip()
OneLine(buffer) == Strip(SubSpaces(buffer))

\* MatchOrNone with the fault "the final shape is not checked": three currency
\* tokens finalize the buffer
MatchAlways(one_line) == one_line

\* one_line if SERVICE_ROW_RE matches it, else None
MatchOrNone(one_line) ==
    IF SERVICE_ROW_RE(one_line).matched THEN one_line ELSE None

\* the row, or None
try_finalize(buffer) ==
    IF /\ buffer # <<>>
       /\ CountCurrency(buffer, 1, MinCurrencyTokens) >= MinCurrencyTokens
    THEN MatchOrNone(OneLine(buffer))
    ELSE None

\* The body of the loop over the lines: st = [rows, buf] before the line raw,
\* the result is [rows, buf] after it.
\* Finalize with the fault "buf is not reset": the row is emitted and the
\* buffer goes on accumulating
FinalizeKeepBuf(rows, buf, done) ==
    IF done # None
    THEN [rows |-> Append(rows, done), buf |-> buf]
    ELSE [rows |-> rows, buf |-> buf]

\* done = try_finalize(buf); if done: rows.append(done); buf = None
Finalize(rows, buf, done) ==
    IF done # None
    THEN [rows |-> Append(rows, done), buf |-> None]
    ELSE [rows |-> rows, buf |-> buf]

\* buf = ...; done = try_finalize(buf); ...
SetBuf(rows, buf) == Finalize(rows, buf, try_finalize(buf))

\* AssembleStripped with the fault "buf = line" for "buf = f'{buf} {line}'": a
\* continuation line replaces the buffer
AssembleRestart(st, line) ==
    IF line = <<>> THEN st
    ELSE IF st.buf = None
    THEN IF DATE_START_RE(line) THEN SetBuf(st.rows, line) ELSE st
    ELSE SetBuf(st.rows, line)

\* AssembleStripped with the fault "the date test is missing": any line starts
\* a buffer
AssembleAnyStart(st, line) ==
    IF line = <<>> THEN st
    ELSE IF st.buf = None THEN SetBuf(st.rows, line)
    ELSE SetBuf(st.rows, st.buf \o <<" ">> \o line)

\* AssembleStripped with the fault "a date line always starts a buffer": while
\* accumulating, a date line replaces the buffer
AssembleDateRestarts(st, line) ==
    IF line = <<>> THEN st
    ELSE IF st.buf = None \/ DATE_START_RE(line)
    THEN IF DATE_START_RE(line) THEN SetBuf(st.rows, line) ELSE st
    ELSE SetBuf(st.rows, st.buf \o <<" ">> \o line)

\* the loop body for line = raw.strip()
AssembleStripped(st, line) ==
    IF line = <<>> THEN st
    ELSE IF st.buf = None
    THEN IF DATE_START_RE(line) THEN SetBuf(st.rows, line) ELSE st
    ELSE SetBuf(st.rows, st.buf \o <<" ">> \o line)

AssembleLine(st, raw) == AssembleStripped(st, Strip(raw))

RECURSIVE AssembleLoop(_, _)
AssembleLoop(st, lines) ==
    IF lines = <<>> THEN st
    ELSE AssembleLoop(AssembleLine(st, Head(lines)), Tail(lines))

\* assemble_rows_from_lines with the fault "the buffer left at the end of the
\* lines is emitted as a row"
AssembleFlush(lines, pending) ==
    Finalize(AssembleLoop([rows |-> <<>>, buf |-> pending], lines).rows,
             AssembleLoop([rows |-> <<>>, buf |-> pending], lines).buf,
             AssembleLoop([rows |-> <<>>, buf |-> pending], lines).buf)

\* (completed_rows, pending_buffer_for_next_page) as [rows, buf]
assemble_rows_from_lines(lines, pending) ==
    AssembleLoop([rows |-> <<>>, buf |-> pending], lines)

\* ------------------------------------------------------------ the row parser

AssertionError == [AssertionError |-> TRUE]

\* the dict of the six row fields, or AssertionError when the assert fails
RowDict(m) ==
    IF ~m.matched THEN AssertionError
    ELSE ("Service Date" :> m.ServiceDate)
      @@ ("Services Provided" :> Strip(m.Service))
      @@ ("Provider Billed ($)" :> _money_to_str(m.ProviderBilled))
      @@ ("DMBA Paid ($)" :> _money_to_str(m.DMBA_Paid))
      @@ ("Your Responsibility ($)" :> _money_to_str(m.YourResp))
      @@ ("Message Codes" :> Strip(m.MessageCodes))

\* parse_service_row with the fault "the parser re-matches with a pattern of
\* its own, in which an amount carries a dollar sign"
ParseDollarRows(row) ==
    IF \E k \in 1..Len(row) : row[k] = "$"
    THEN RowDict(SERVICE_ROW_RE(row))
    ELSE AssertionError

parse_service_row(row) == RowDict(SERVICE_ROW_RE(row))

\* ------------------------------------------------------------ header fields

W_Claim == <<"C", "l", "a", "i", "m">>

W_Patient == <<"P", "a", "t", "i", "e", "n", "t">>

W_Health == <<"H", "e", "a", "l", "t", "h">>

W_Plan == <<"P", "l", "a", "n">>

W_Participant == <<"P", "a", "r", "t", "i", "c", "i", "p", "a", "n", "t">>

W_Id == <<"I", "d">>

W_Date == <<"D", "a", "t", "e">>

W_Entered == <<"E", "n", "t", "e", "r", "e", "d">>

W_Paid == <<"P", "a", "i", "d">>

W_Provider == <<"P", "r", "o", "v", "i", "d", "e", "r">>

W_code == <<"c", "o", "d", "e">>

W_description == <<"d", "e", "s", "c", "r", "i", "p", "t", "i", "o", "n">>

\* " ".join(m.group(1).split())
JoinSplit(g) == Join(<<" ">>, Split(g))

\* pat.search(text), where at[p] is the pattern's match at index p of the text
\* (the normalized group 1, or None): the match at the leftmost index that has
\* one
Search(at) ==
    IF \A p \in DOMAIN at : at[p] = None THEN None
    ELSE at[Min({p \in DOMAIN at : at[p] # None})]

\* The group of  <label>\s+(.+?)<tail>  when the label ends before index le and
\* the tail matches at the indexes tails: \s+ is greedy, so the group starts
\* as late as a match allows, and .+? is lazy, so it ends at the first index
\* where the tail matches.  dotall is re.S: without it the group holds no line
\* break.  None when nothing matches.
LazyGroup(text, le, tails, dotall) ==
    LET w == Skip(text, le, Space)
        ends(a) == {e \in tails :
                      /\ e > a
                      /\ dotall \/ \A k \in a..(e - 1) : text[k] # "\n"}
        A == {a \in (le + 1)..w : a <= Len(text) /\ ends(a) # {}}
    IN  IF A = {} THEN None
        ELSE JoinSplit(SubSeq(text, Max(A), Min(ends(Max(A))) - 1))

\* the indexes of text, and the index after its end
Ends(text) == 1..(Len(text) + 1)

\* Health\s*Plan\b at index h, Date\s*Entered\b at index h
HealthPlanAt(text, h) ==
    /\ LitAt(text, h, W_Health)
    /\ LitAt(text, Skip(text, h + 6, Space), W_Plan)
    /\ WordBoundary(text, Skip(text, h + 6, Space) + 4)

DateEnteredAt(text, h) ==
    /\ LitAt(text, h, W_Date)
    /\ LitAt(text, Skip(text, h + 4, Space), W_Entered)
    /\ WordBoundary(text, Skip(text, h + 4, Space) + 7)

\* the tails \s+Health\s*Plan\b, \s+(?:Participant|Date\s*Entered)\b,
\* \s+Date\s*Entered\b and (?:\n|$) at index e
TailHealthPlan(text, e) ==
    e <= Len(text) /\ text[e] \in Space /\ HealthPlanAt(text, Skip(text, e, Space))

TailParticipantOrDate(text, e) ==
    /\ e <= Len(text)
    /\ text[e] \in Space
    /\ LET h == Skip(text, e, Space)
       IN  \/ LitAt(text, h, W_Participant) /\ WordBoundary(text, h + 11)
           \/ DateEnteredAt(text, h)

TailDateEntered(text, e) ==
    e <= Len(text) /\ text[e] \in Space /\ DateEnteredAt(text, Skip(text, e, Space))

TailLineEnd(text, e) == e = Len(text) + 1 \/ text[e] = "\n"

\* \bClaim\s*:?\s*(T\d{7,})
ClaimAt(text, p) ==
    LET q == Skip(text, Opt(text, Skip(text, p + 5, Space), ":"), Space)
        n == DigitRun(text, q + 1)
    IN  IF /\ WordBoundary(text, p)
           /\ LitAt(text, p, W_Claim)
           /\ LitAt(text, q, <<"T">>)
           /\ n >= 7
        THEN JoinSplit(SubSeq(text, q, q + n))
        ELSE None

\* \bPatient\s+(.+?)\s+Health\s*Plan\b  (re.S)
PatientAt(text, p) ==
    IF WordBoundary(text, p) /\ LitAt(text, p, W_Patient)
    THEN LazyGroup(text, p + 7,
                   {e \in Ends(text) : TailHealthPlan(text, e)}, TRUE)
    ELSE None

\* \bHealth\s*Plan\s+(.+?)\s+(?:Participant|Date\s*Entered)\b  (re.S)
HealthPlanFieldAt(text, p) ==
    IF /\ WordBoundary(text, p)
       /\ LitAt(text, p, W_Health)
       /\ LitAt(text, Skip(text, p + 6, Space), W_Plan)
    THEN LazyGroup(text, Skip(text, p + 6, Space) + 4,
                   {e \in Ends(text) : TailParticipantOrDate(text, e)}, TRUE)
    ELSE None

\* \bParticipant\s+(.+?)\s+Date\s*Entered\b  (re.S)
ParticipantAt(text, p) ==
    IF WordBoundary(text, p) /\ LitAt(text, p, W_Participant)
    THEN LazyGroup(text, p + 11,
                   {e \in Ends(text) : TailDateEntered(text, e)}, TRUE)
    ELSE None

\* \bParticipant\s*Id\s+([0-9]+)\b
ParticipantIdAt(text, p) ==
    LET i == Skip(text, p + 11, Space)
        w == Skip(text, i + 2, Space)
        n == DigitRun(text, w)
    IN  IF /\ WordBoundary(text, p)
           /\ LitAt(text, p, W_Participant)
           /\ LitAt(text, i, W_Id)
           /\ w > i + 2
           /\ n >= 1
           /\ WordBoundary(text, w + n)
        THEN JoinSplit(SubSeq(text, w, w + n - 1))
        ELSE None

\* \bDate\s*<word>\s+(\d{2}/\d{2}/\d{4})\b  for Entered and Paid
DateFieldAt(text, p, word) ==
    LET x == Skip(text, p + 4, Space)
        w == Skip(text, x + Len(word), Space)
    IN  IF /\ WordBoundary(text, p)
           /\ LitAt(text, p, W_Date)
           /\ LitAt(text, x, word)
           /\ w > x + Len(word)
           /\ DateAt(text, w)
           /\ WordBoundary(text, w + 10)
        THEN JoinSplit(SubSeq(text, w, w + 9))
        ELSE None

DateEnteredFieldAt(text, p) == DateFieldAt(text, p, W_Entered)

DatePaidFieldAt(text, p) == DateFieldAt(text, p, W_Paid)

\* \bProvider\s+(.+?)(?:\n|$)
ProviderAt(text, p) ==
    IF WordBoundary(text, p) /\ LitAt(text, p, W_Provider)
    THEN LazyGroup(text, p + 8,
                   {e \in Ends(text) : TailLineEnd(text, e)}, FALSE)
    ELSE None

\* the keys of HEADER_PATS
HeaderKeys == {"Claim", "Patient", "Health Plan", "Participant", "Participant Id",
               "Date Entered", "Date Paid", "Provider"}

\* the dict of the eight fields, each the normalized group or None
extract_header_fields(page_text) ==
       ("Claim" :>
          Search([p \in DOMAIN page_text |-> ClaimAt(page_text, p)]))
    @@ ("Patient" :>
          Search([p \in DOMAIN page_text |-> PatientAt(page_text, p)]))
    @@ ("Health Plan" :>
          Search([p \in DOMAIN page_text |-> HealthPlanFieldAt(page_text, p)]))
    @@ ("Participant" :>
          Search([p \in DOMAIN page_text |-> ParticipantAt(page_text, p)]))
    @@ ("Participant Id" :>
          Search([p \in DOMAIN page_text |-> ParticipantIdAt(page_text, p)]))
    @@ ("Date Entered" :>
          Search([p \in DOMAIN page_text |-> DateEnteredFieldAt(page_text, p)]))
    @@ ("Date Paid" :>
          Search([p \in DOMAIN page_text |-> DatePaidFieldAt(page_text, p)]))
    @@ ("Provider" :>
          Search([p \in DOMAIN page_text |-> ProviderAt(page_text, p)]))

\* ------------------------------------------------------------ legend pages

UpperSeq == <<"A", "B", "C", "D", "E", "F", "G", "H", "I", "J", "K", "L", "M",
              "N", "O", "P", "Q", "R", "S", "T", "U", "V", "W", "X", "Y", "Z">>

LowerSeq == <<"a", "b", "c", "d", "e", "f", "g", "h", "i", "j", "k", "l", "m",
              "n", "o", "p", "q", "r", "s", "t", "u", "v", "w", "x", "y", "z">>

ToLower(c) ==
    IF c \in Upper THEN LowerSeq[CHOOSE k \in 1..26 : UpperSeq[k] = c] ELSE c

\* a lower-case literal at index i, letter case ignored (re.I)
LitAtI(s, i, lit) ==
    /\ i >= 1
    /\ i + Len(lit) - 1 <= Len(s)
    /\ \A k \in 1..Len(lit) : ToLower(s[i + k - 1]) = lit[k]

\* LEGEND_HDR_RE.search(page_text): \bCode\s+Description\b, re.I
LEGEND_HDR_RE(page_text) ==
    \E p \in 1..Len(page_text) :
        /\ WordBoundary(page_text, p)
        /\ LitAtI(page_text, p, W_code)
        /\ Skip(page_text, p + 4, Space) > p + 4
        /\ LitAtI(page_text, Skip(page_text, p + 4, Space), W_description)
        /\ WordBoundary(page_text, Skip(page_text, p + 4, Space) + 11)

\* the longest code token of a legend line
LegendCodeMaxLen == 4

\* The index after the match of LEGEND_LINE_RE = ^[A-Z0-9]{1,4}\b\s+.+ (re.M)
\* at index p, or 0 when it does not match there.  \s+ takes line breaks too,
\* so a line holding only a code matches together with the next line.
LegendLineEnd(text, p) ==
    LET k == Skip(text, p, Upper \cup Digit) - p
        w == Skip(text, p + k, Space)
        A == {a \in (p + k + 1)..w : a <= Len(text) /\ text[a] # "\n"}
    IN  IF /\ p = 1 \/ text[p - 1] = "\n"
           /\ k >= 1
           /\ k <= LegendCodeMaxLen
           /\ WordBoundary(text, p + k)
           /\ A # {}
        THEN Min({e \in Max(A)..Len(text) : text[e] = "\n"} \cup {Len(text) + 1})
        ELSE 0

\* len(LEGEND_LINE_RE.findall(text[i:])), capped at cap (the caller asks ">= 2"):
\* the scan takes the leftmost match from i and goes on after it
RECURSIVE CountLegendLines(_, _, _)
CountLegendLines(text, i, cap) ==
    LET M == {k \in i..Len(text) : LegendLineEnd(text, k) # 0}
    IN  IF cap = 0 \/ M = {} THEN 0
        ELSE 1 + CountLegendLines(text, LegendLineEnd(text, Min(M)), cap - 1)

\* the number of legend lines is_legend_only_page asks for
MinLegendLines == 2

is_legend_only_page(page_text, num_service_rows) ==
    IF num_service_rows > 0 THEN FALSE
    ELSE /\ LEGEND_HDR_RE(page_text)
         /\ CountLegendLines(page_text, 1, MinLegendLines) >= MinLegendLines

\* ------------------------------------------------------------ page texts

\* The lines the pages of the checked documents are made of, as
\* page.extract_text() gives them.
\* Claim: T1234567 Patient JO Health Plan PPO Participant AL Date Entered 01/02/2025
HdrA1 ==
    <<"C", "l", "a", "i", "m", ":", " ", "T", "1", "2", "3", "4", "5", "6",
      "7", " ", "P", "a", "t", "i", "e", "n", "t", " ", "J", "O", " ", "H",
      "e", "a", "l", "t", "h", " ", "P", "l", "a", "n", " ", "P", "P", "O",
      " ", "P", "a", "r", "t", "i", "c", "i", "p", "a", "n", "t", " ", "A",
      "L", " ", "D", "a", "t", "e", " ", "E", "n", "t", "e", "r", "e", "d",
      " ", "0", "1", "/", "0", "2", "/", "2", "0", "2", "5">>

\* Participant Id 12 Date Paid 01/05/2025  Provider DOC
HdrA2 ==
    <<"P", "a", "r", "t", "i", "c", "i", "p", "a", "n", "t", " ", "I", "d",
      " ", "1", "2", " ", "D", "a", "t", "e", " ", "P", "a", "i", "d", " ",
      "0", "1", "/", "0", "5", "/", "2", "0", "2", "5", " ", " ", "P", "r",
      "o", "v", "i", "d", "e", "r", " ", "D", "O", "C">>

\* Claim T7654321
HdrB ==
    <<"C", "l", "a", "i", "m", " ", "T", "7", "6", "5", "4", "3", "2", "1">>

\* 01/23/2025  visit~U+00A0~$10.00 $8.00 $2.00 B6 
Row1 ==
    <<"0", "1", "/", "2", "3", "/", "2", "0", "2", "5", " ", " ", "v", "i",
      "s", "i", "t", "~", "$", "1", "0", ".", "0", "0", " ", "$", "8", ".",
      "0", "0", " ", "$", "2", ".", "0", "0", " ", "B", "6", " ">>

\* 02/01/2025 lab 5.00 0 0 17
Row2 ==
    <<"0", "2", "/", "0", "1", "/", "2", "0", "2", "5", " ", "l", "a", "b",
      " ", "5", ".", "0", "0", " ", "0", " ", "0", " ", "1", "7">>

\* 03/04/2025 xray
FragA ==
    <<"0", "3", "/", "0", "4", "/", "2", "0", "2", "5", " ", "x", "r", "a",
      "y">>

\* $7.00 $0.00 (7.00) N3
FragB ==
    <<"$", "7", ".", "0", "0", " ", "$", "0", ".", "0", "0", " ", "(", "7",
      ".", "0", "0", ")", " ", "N", "3">>

\* Code Description
LegendHdr ==
    <<"C", "o", "d", "e", " ", "D", "e", "s", "c", "r", "i", "p", "t", "i",
      "o", "n">>

\* B6 paid
Legend1 ==
    <<"B", "6", " ", "p", "a", "i", "d">>

\* N3 denied
Legend2 ==
    <<"N", "3", " ", "d", "e", "n", "i", "e", "d">>

NL == <<"\n">>

\* What page.extract_text() returns for each page a document may hold:
\* a claim header with a complete row; a short claim header with a row and the
\* start of a row; a headerless page with a row; a headerless page that ends
\* inside a row; the rest of that row and a further row; a new claim header and
\* the rest of a row; a code legend; a claim header over a code legend with no
\* row; a page with no text.
Pages ==
    << Join(NL, <<HdrA1, HdrA2, Row1>>),
       Join(NL, <<HdrB, Row2, FragA>>),
       Join(NL, <<Row2>>),
       Join(NL, <<FragA>>),
       Join(NL, <<FragB, Row1>>),
       Join(NL, <<HdrB, FragB>>),
       Join(NL, <<LegendHdr, Legend1, Legend2>>),
       Join(NL, <<HdrB, LegendHdr, Legend1, Legend2>>),
       None >>

\* ------------------------------------------------------------ the page loop

\* the longest document checked
MaxPages == 3

\* current_ctx = None
NoneCtx == [None |-> TRUE]

\* x or ""
OrEmpty(x) == IF x = None THEN <<>> ELSE x

\* StampFields with the fault "only the claim number is stamped"
StampClaimOnly(ctx) ==
    [k \in HeaderKeys |-> IF k = "Claim" THEN OrEmpty(ctx[k]) ELSE <<>>]

\* the eight context fields of a stamped record
StampFields(ctx) == [k \in HeaderKeys |-> OrEmpty(ctx[k])]

\* stamped = {...}; stamped.update(r)
Stamp(ctx, r) == r @@ StampFields(ctx)

\* EmitRows with the fault "all_rows.insert(0, stamped)"
RECURSIVE EmitRowsFirst(_, _, _)
EmitRowsFirst(all, ctx, row_texts) ==
    IF row_texts = <<>> THEN all
    ELSE EmitRowsFirst(<<Stamp(ctx, parse_service_row(Head(row_texts)))>> \o all,
                       ctx, Tail(row_texts))

\* all_rows after the loop "for t in row_texts" appended the stamped records
RECURSIVE EmitRows(_, _, _)
EmitRows(all, ctx, row_texts) ==
    IF row_texts = <<>> THEN all
    ELSE EmitRows(Append(all, Stamp(ctx, parse_service_row(Head(row_texts)))),
                  ctx, Tail(row_texts))

\* whether parse_service_row raises on one of the rows
Raises(row_texts) ==
    \E k \in 1..Len(row_texts) : parse_service_row(row_texts[k]) = AssertionError

\* The start of one iteration of "for page in pdf.pages", which reads the page
\* alone: lines, page_text, header and has_claim_header for the text raw.
PageHeader(lines, page_text, header) ==
    [lines |-> lines,
     page_text |-> page_text,
     header |-> header,
     has_claim_header |-> header["Claim"] \notin {None, <<>>}]

PageText(lines, page_text) ==
    PageHeader(lines, page_text, extract_header_fields(page_text))

PageRead(raw) == PageText(normalize_page_text(raw), Join(NL, normalize_page_text(raw)))

\* PageRead of every page of Pages
PagesRead == [p \in DOMAIN Pages |-> PageRead(Pages[p])]

\* the end of the iteration: "if row_texts and current_ctx" and the loop over
\* row_texts, for a page that is not skipped as a legend; nothing for a legend
PageEmit(st, asm, legend, ctx, row_texts, raised) ==
    [all_rows    |-> IF ~legend /\ row_texts # <<>> /\ ctx # NoneCtx /\ ~raised
                     THEN EmitRows(st.all_rows, ctx, row_texts)
                     ELSE st.all_rows,
     current_ctx |-> IF legend THEN st.current_ctx ELSE ctx,
     pending_row |-> asm.buf,
     raised      |-> ~legend /\ ctx # NoneCtx /\ raised,
     assembled   |-> asm.rows,
     legend      |-> legend]

\* PageContext with the fault "current_ctx = header on every page": a page
\* without a Claim header is stamped with its own, empty, header
PageOwnHeader(st, read, asm, legend, row_texts) ==
    PageEmit(st, asm, legend, read.header, asm.rows, Raises(asm.rows))

\* PageContext with the fault "current_ctx.update(found fields)": the fields
\* the new header lacks are kept from the previous context
PageMergeHeader(st, read, asm, legend, row_texts) ==
    PageEmit(st, asm, legend,
             IF ~read.has_claim_header THEN st.current_ctx
             ELSE IF st.current_ctx = NoneCtx THEN read.header
             ELSE [k \in HeaderKeys |->
                     IF read.header[k] = None THEN st.current_ctx[k]
                     ELSE read.header[k]],
             row_texts, Raises(row_texts))

\* PageContext with the fault "the rows are emitted before the context is
\* updated": with a context in force, the page's rows are stamped with it
PageStampBefore(st, read, asm, legend, row_texts) ==
    [PageEmit(st, asm, legend,
              IF read.has_claim_header /\ st.current_ctx = NoneCtx
              THEN read.header ELSE st.current_ctx,
              row_texts, Raises(row_texts))
     EXCEPT !.current_ctx = IF legend \/ ~read.has_claim_header
                            THEN st.current_ctx ELSE read.header]

\* "Maintain context": current_ctx and row_texts after it
PageContext(st, read, asm, legend, row_texts) ==
    PageEmit(st, asm, legend,
             IF read.has_claim_header THEN read.header ELSE st.current_ctx,
             row_texts, Raises(row_texts))

\* the iteration after row_texts, pending_row = asm.rows, asm.buf
PageAssembled(st, read, asm) ==
    PageContext(st, read, asm, is_legend_only_page(read.page_text, Len(asm.rows)),
                IF ~read.has_claim_header /\ st.current_ctx = NoneCtx
                THEN <<>> ELSE asm.rows)

\* The rest of the iteration, from the state st = [all_rows, current_ctx,
\* pending_row] and what PageRead gave.  The result gives the three again,
\* whether the iteration raised, and the iteration's locals.
PageStep(st, read) ==
    PageAssembled(st, read, assemble_rows_from_lines(read.lines, st.pending_row))

\* the state of parse_pdf_to_rows before the first page
Start == [all_rows |-> <<>>, current_ctx |-> NoneCtx, pending_row |-> None]

RECURSIVE RunPages(_, _)
RunPages(st, doc) ==
    IF doc = <<>> THEN st
    ELSE RunPages(PageStep(st, PagesRead[Head(doc)]), Tail(doc))

\* what parse_pdf_to_rows returns for the document of the pages Pages[doc[1]],
\* Pages[doc[2]], ...
parse_pdf_to_rows(doc) == RunPages(Start, doc).all_rows

\* ------------------------------------------------------------ rows in lines

\* The rows given to the assembler line by line: a date, a description of
\* one to MaxDesc fragments, three amounts and a code field.  The row is cut
\* into at most MaxLines lines between these units, and the lines lie on at
\* most MaxBreaks + 1 pages.
MaxDesc == 3

MaxLines == 4

MaxBreaks == 1

\* 01/23/2025
RowDate == <<"0", "1", "/", "2", "3", "/", "2", "0", "2", "5">>

\* visit / 5 / lab 1 2 3 AB
DescFrags ==
    { <<"v", "i", "s", "i", "t">>,
      <<"5">>,
      <<"l", "a", "b", " ", "1", " ", "2", " ", "3", " ", "A", "B">> }

\* $1,234.00 $8.00 (2.00) / 1 2 3
AmountTriples ==
    { << <<"$", "1", ",", "2", "3", "4", ".", "0", "0">>,
         <<"$", "8", ".", "0", "0">>,
         <<"(", "2", ".", "0", "0", ")">> >>,
      << <<"1">>, <<"2">>, <<"3">> >> }

\* B6 / 17 N3
CodeFields ==
    { <<"B", "6">>,
      <<"1", "7", " ", "N", "3">> }

Descs == UNION {[1..n -> DescFrags] : n \in 1..MaxDesc}

EmbeddedRows ==
    [date : {RowDate}, desc : Descs, amounts : AmountTriples, codes : CodeFields]

\* the units of a row, between which it is cut into lines
Units(r) == <<r.date>> \o r.desc \o r.amounts \o <<r.codes>>

\* the blanks before unit u in a line: a tab and a space before the first
\* amount, two spaces before the code field, one space elsewhere
SepBefore(r, u) ==
    IF u = Len(r.desc) + 2 THEN <<"\t", " ">>
    ELSE IF u = Len(r.desc) + 5 THEN <<" ", " ">>
    ELSE <<" ">>

\* the line holding the units a..b of r, with a blank before and a tab after it
LineOf(r, a, b) ==
    <<" ">>
    \o Concat([u \in a..b |-> IF u = a THEN Units(r)[u]
                              ELSE SepBefore(r, u) \o Units(r)[u]], a, b)
    \o <<"\t">>

\* ------------------------------------------------------------ the state

VARIABLES
    pc,           \* "loop": in the page loop; "done": returned; "raised"
    all_rows,     \* the records appended so far
    current_ctx,  \* the carried header, or NoneCtx
    pending_row,  \* the carried partial row, or None
    hist,         \* one entry per page processed: the page and the locals
    row,          \* the row given to the assembler line by line
    cuts,         \* the number of units given after each line so far
    brk,          \* the number of lines given before each page break so far
    rows,         \* rows of the running call of assemble_rows_from_lines
    buf,          \* buf of the running call
    total         \* the rows the finished calls returned

pipeline == <<pc, all_rows, current_ctx, pending_row, hist>>

lines_ == <<row, cuts, brk, rows, buf, total>>

vars == <<pc, all_rows, current_ctx, pending_row, hist,
          row, cuts, brk, rows, buf, total>>

\* no call of assemble_rows_from_lines is running
IdleLines ==
    /\ cuts = <<>>
    /\ brk = <<>>
    /\ rows = <<>>
    /\ buf = None
    /\ total = <<>>

Init ==
    /\ pc = "loop"
    /\ all_rows = <<>>
    /\ current_ctx = NoneCtx
    /\ pending_row = None
    /\ hist = <<>>
    /\ row = <<>>
    /\ IdleLines

\* the loop body on the next page of the document
ProcessPage(p) ==
    /\ pc = "loop"
    /\ Len(hist) < MaxPages
    /\ LET st == [all_rows |-> all_rows, current_ctx |-> current_ctx,
                  pending_row |-> pending_row]
       IN  \E r \in {PageStep(st, PagesRead[p])} :
           /\ all_rows' = r.all_rows
           /\ current_ctx' = r.current_ctx
           /\ pending_row' = r.pending_row
           /\ pc' = IF r.raised THEN "raised" ELSE "loop"
           /\ hist' = Append(hist,
                  [page |-> p,
                   header |-> PagesRead[p].header,
                   has_claim_header |-> PagesRead[p].has_claim_header,
                   assembled |-> r.assembled,
                   legend |-> r.legend,
                   ctx_before |-> current_ctx,
                   ctx_after |-> r.current_ctx,
                   pending_before |-> pending_row,
                   pending_after |-> r.pending_row,
                   n_before |-> Len(all_rows),
                   n_after |-> Len(r.all_rows)])
    /\ UNCHANGED lines_

\* the document has no further page: return all_rows
Return ==
    /\ pc = "loop"
    /\ pc' = "done"
    /\ UNCHANGED <<all_rows, current_ctx, pending_row, hist>>
    /\ UNCHANGED lines_

Next ==
    \/ \E p \in DOMAIN Pages : ProcessPage(p)
    \/ Return

Spec == Init /\ [][Next]_vars

\* ------------------------------------------------------------ the assembler
\* on the lines of one row

\* the number of units given so far
Given == IF cuts = <<>> THEN 0 ELSE cuts[Len(cuts)]

InitLines ==
    /\ pc = "lines"
    /\ all_rows = <<>>
    /\ current_ctx = NoneCtx
    /\ pending_row = None
    /\ hist = <<>>
    /\ row \in EmbeddedRows
    /\ IdleLines

\* one iteration of "for raw in lines", on the line of the next k units
FeedLine(k) ==
    /\ pc = "lines"
    /\ Len(cuts) < MaxLines
    /\ Given + k <= Len(Units(row))
    /\ \E st \in {AssembleLine([rows |-> rows, buf |-> buf],
                               LineOf(row, Given + 1, Given + k))} :
           /\ rows' = st.rows
           /\ buf' = st.buf
    /\ cuts' = Append(cuts, Given + k)
    /\ UNCHANGED <<row, brk, total>>
    /\ UNCHANGED pipeline

\* The page ends inside the row: the call returns (rows, buf) and the next
\* page's call starts with pending = buf.
NextPage ==
    /\ pc = "lines"
    /\ cuts # <<>>
    /\ Given < Len(Units(row))
    /\ Len(brk) < MaxBreaks
    /\ brk # <<>> => brk[Len(brk)] < Len(cuts)
    /\ total' = total \o rows
    /\ rows' = <<>>
    /\ brk' = Append(brk, Len(cuts))
    /\ UNCHANGED <<row, cuts, buf>>
    /\ UNCHANGED pipeline

\* The document ends: the call returns (rows, buf), and buf is ignored.
EndDocument ==
    /\ pc = "lines"
    /\ cuts # <<>>
    /\ pc' = "done"
    /\ total' = total \o rows
    /\ rows' = <<>>
    /\ UNCHANGED <<row, cuts, brk, buf>>
    /\ UNCHANGED <<all_rows, current_ctx, pending_row, hist>>

NextLines ==
    \/ \E k \in 1..(MaxDesc + 5) : FeedLine(k)
    \/ NextPage
    \/ EndDocument

SpecAsm == InitLines /\ [][NextLines]_vars

\* ------------------------------------------------------------ the page loop
\* on one row with a given currency token

\* The currency tokens: each has the shape of CURRENCY, an optional opening
\* parenthesis, minus and dollar sign, digits with or without thousands
\* separators, optional cents and an optional closing parenthesis.
MoneyDigits ==
    { <<"0">>, <<"1", "2">>, <<"0", "0", "7">>, <<"1", ",", "2", "3", "4">> }

MoneyCents == { <<>>, <<".", "5", "0">> }

CurrencyTokens ==
    { a \o b \o c \o d \o e \o f :
        a \in {<<>>, <<"(">>}, b \in {<<>>, <<"-">>}, c \in {<<>>, <<"$">>},
        d \in MoneyDigits, e \in MoneyCents, f \in {<<>>, <<")">>} }

\* $0.00
ZeroAmount == <<"$", "0", ".", "0", "0">>

\* the rows "01/23/2025 visit <token> $0.00 $0.00 B6"
MoneyRows ==
    [date : {RowDate},
     desc : {<< <<"v", "i", "s", "i", "t">> >>},
     amounts : {<<t, ZeroAmount, ZeroAmount>> : t \in CurrencyTokens},
     codes : {<<"B", "6">>}]

\* what page.extract_text() returns for the page with the header line
\* "Claim T7654321" and the row r on one line
RowPage(r) == Join(NL, <<HdrB, LineOf(r, 1, Len(Units(r)))>>)

InitMoney ==
    /\ pc = "money"
    /\ all_rows = <<>>
    /\ current_ctx = NoneCtx
    /\ pending_row = None
    /\ hist = <<>>
    /\ row \in MoneyRows
    /\ IdleLines

\* the loop body on the page of the row
ProcessRowPage ==
    /\ pc = "money"
    /\ LET st == [all_rows |-> all_rows, current_ctx |-> current_ctx,
                  pending_row |-> pending_row]
       IN  \E read \in {PageRead(RowPage(row))} :
           \E r \in {PageStep(st, read)} :
           /\ all_rows' = r.all_rows
           /\ current_ctx' = r.current_ctx
           /\ pending_row' = r.pending_row
           /\ pc' = IF r.raised THEN "raised" ELSE "loop"
           /\ hist' = Append(hist,
                  [page |-> 0,
                   header |-> read.header,
                   has_claim_header |-> read.has_claim_header,
                   assembled |-> r.assembled,
                   legend |-> r.legend,
                   ctx_before |-> current_ctx,
                   ctx_after |-> r.current_ctx,
                   pending_before |-> pending_row,
                   pending_after |-> r.pending_row,
                   n_before |-> Len(all_rows),
                   n_after |-> Len(r.all_rows)])
    /\ UNCHANGED lines_

NextMoney ==
    \/ ProcessRowPage
    \/ Return

SpecMoney == InitMoney /\ [][NextMoney]_vars

\* ------------------------------------------------------------ the assembler
\* on arbitrary lines

\* the most text lines given
MaxFeed == 3

\* two blanks
BlankLine == <<" ", " ">>

\* Page 2
FooterLine == <<"P", "a", "g", "e", " ", "2">>

\* 01/23/20255 x
NearDate ==
    <<"0", "1", "/", "2", "3", "/", "2", "0", "2", "5", "5", " ", "x">>

\*  01/23/2025  visit U+00A0$10.00 $8.00 $2.00 B6 
RowNb ==
    <<" ", "0", "1", "/", "2", "3", "/", "2", "0", "2", "5", " ", " ", "v",
      "i", "s", "i", "t", " ", "~", "$", "1", "0", ".", "0", "0", " ", "$",
      "8", ".", "0", "0", " ", "$", "2", ".", "0", "0", " ", "B", "6", " ">>

\* The text lines a page may hold, as page.extract_text() gives them: a blank
\* line, a header line, a footer line, the start of a row, the rest of a row,
\* a complete row, a complete row with blanks of all kinds, and a line that
\* starts like a date and goes on with a digit.
RawLines ==
    <<BlankLine, HdrB, FooterLine, FragA, FragB, Row2, RowNb, NearDate>>

InitFeed ==
    /\ pc = "feed"
    /\ all_rows = <<>>
    /\ current_ctx = NoneCtx
    /\ pending_row = None
    /\ hist = <<>>
    /\ row = <<>>
    /\ IdleLines

\* normalize_page_text on the text line l and the iterations of "for raw in
\* lines" on what it gives; hist records the line and the state around it
ConsumeText(l) ==
    /\ pc = "feed"
    /\ Len(hist) < MaxFeed
    /\ \E lines \in {normalize_page_text(RawLines[l])} :
       \E st \in {AssembleLoop([rows |-> rows, buf |-> buf], lines)} :
           /\ rows' = st.rows
           /\ buf' = st.buf
           /\ hist' = Append(hist,
                  [raw |-> l,
                   lines |-> lines,
                   rows_before |-> rows,
                   buf_before |-> buf,
                   rows_after |-> st.rows,
                   buf_after |-> st.buf])
    /\ UNCHANGED <<row, cuts, brk, total>>
    /\ UNCHANGED <<pc, all_rows, current_ctx, pending_row>>

\* the page ends: the call returns (rows, buf), pending_row = buf, and the
\* next page's call starts with pending = pending_row
TurnPage ==
    /\ pc = "feed"
    /\ hist # <<>>
    /\ Len(brk) < MaxBreaks
    /\ brk # <<>> => brk[Len(brk)] < Len(hist)
    /\ total' = total \o rows
    /\ rows' = <<>>
    /\ pending_row' = buf
    /\ brk' = Append(brk, Len(hist))
    /\ UNCHANGED <<row, cuts, buf>>
    /\ UNCHANGED <<pc, all_rows, current_ctx, hist>>

\* the last page ends
EndFeed ==
    /\ pc = "feed"
    /\ hist # <<>>
    /\ pc' = "done"
    /\ total' = total \o rows
    /\ rows' = <<>>
    /\ pending_row' = buf
    /\ UNCHANGED <<row, cuts, brk, buf>>
    /\ UNCHANGED <<all_rows, current_ctx, hist>>

NextFeed ==
    \/ \E l \in DOMAIN RawLines : ConsumeText(l)
    \/ TurnPage
    \/ EndFeed

SpecFeed == InitFeed /\ [][NextFeed]_vars

\* ------------------------------------------------------------ properties of
\* the page loop (Spec)

RowKeys == {"Service Date", "Services Provided", "Provider Billed ($)",
            "DMBA Paid ($)", "Your Responsibility ($)", "Message Codes"}

\* the six row fields of a stamped record
RowFields(rec) == [f \in RowKeys |-> rec[f]]

\* the page of entry h was processed with no context and has no Claim header
Orphan(h) == h.ctx_before = NoneCtx /\ ~h.has_claim_header

\* C2: every page classified legend-only leaves current_ctx and pending_row
\* as they were before it, whatever the carried state was.
C2_LegendKeepsState ==
    \A k \in DOMAIN hist :
        hist[k].legend =>
            /\ hist[k].ctx_after = hist[k].ctx_before
            /\ hist[k].pending_after = hist[k].pending_before

\* C3: for a data page with a Claim header, a legend-only page and a data page
\* without a header, in this order, the records are those of the document
\* without the legend page.
C3_LegendTransparent ==
    ( /\ Len(hist) = 3
      /\ hist[1].has_claim_header /\ ~hist[1].legend
      /\ hist[2].legend
      /\ ~hist[3].has_claim_header /\ ~hist[3].legend )
    => all_rows = parse_pdf_to_rows(<<hist[1].page, hist[3].page>>)

\* the pages k+1..j have no Claim header and each yield rows
Headerless(k, j) ==
    \A i \in (k + 1)..j : ~hist[i].has_claim_header /\ hist[i].assembled # <<>>

\* every row assembled on page j was appended, stamped with the fields of header
StampedWith(header, j) ==
    /\ hist[j].n_after - hist[j].n_before = Len(hist[j].assembled)
    /\ \A i \in 1..Len(hist[j].assembled) :
         /\ RowFields(all_rows[hist[j].n_before + i])
              = parse_service_row(hist[j].assembled[i])
         /\ \A f \in HeaderKeys :
              all_rows[hist[j].n_before + i][f] = OrEmpty(header[f])

\* C4, as stated: for a page with a Claim header followed by N >= 0 pages that
\* have no Claim header and each yield rows, every row assembled on these pages
\* is emitted with the eight fields of that header.
C4_CarryForwardAnyHeader ==
    \A k \in DOMAIN hist : \A j \in k..Len(hist) :
        (hist[k].has_claim_header /\ Headerless(k, j))
        => StampedWith(hist[k].header, j)

\* C4, amended: the same for a header page that is not classified legend-only.
C4_CarryForward ==
    \A k \in DOMAIN hist : \A j \in k..Len(hist) :
        (hist[k].has_claim_header /\ ~hist[k].legend /\ Headerless(k, j))
        => StampedWith(hist[k].header, j)

C4_Witness ==
    \E k \in DOMAIN hist :
        /\ hist[k].has_claim_header
        /\ ~hist[k].legend
        /\ k + 2 <= Len(hist)
        /\ Headerless(k, k + 2)
        /\ hist[k + 2].n_after = Len(all_rows)
        /\ Len(all_rows) >= 3

\* C5: a page that yields rows with no context established and no Claim header
\* of its own appends no record, and no record is appended while current_ctx
\* is null.
C5_OrphanRowsDropped ==
    /\ \A k \in DOMAIN hist :
         /\ (Orphan(hist[k]) /\ hist[k].assembled # <<>>)
              => hist[k].n_after = hist[k].n_before
         /\ hist[k].n_after > hist[k].n_before => hist[k].ctx_after # NoneCtx
    /\ current_ctx = NoneCtx => all_rows = <<>>

C5_Witness ==
    \E k \in DOMAIN hist :
        /\ Orphan(hist[k])
        /\ hist[k].assembled # <<>>
        /\ k < Len(hist)
        /\ Len(all_rows) > 0

\* pending_row after page k holds text of a page processed while no context
\* had been established: the buffer was begun or continued on such a page, or
\* page k continued a buffer that held such text
RECURSIVE FromOrphan(_)
FromOrphan(k) ==
    /\ hist[k].pending_after # None
    /\ \/ Orphan(hist[k]) /\ hist[k].pending_after # hist[k].pending_before
       \/ /\ hist[k].assembled = <<>>
          /\ hist[k].pending_before # None
          /\ k > 1
          /\ FromOrphan(k - 1)

\* C6: no record holds row text of a page processed while no context had been
\* established: a page that completes a row begun on such a page appends
\* nothing.
C6_NoOrphanText ==
    \A k \in DOMAIN hist :
        (k > 1 /\ FromOrphan(k - 1) /\ hist[k].assembled # <<>>)
        => hist[k].n_after = hist[k].n_before

\* C7: when a page that is not a legend yields a Claim header, current_ctx
\* becomes that header, and every record of the page carries the page's value
\* of each of the eight fields, the empty string for a field the page lacks.
C7_WholesaleReplacement ==
    \A k \in DOMAIN hist :
        (hist[k].has_claim_header /\ ~hist[k].legend) =>
            /\ hist[k].ctx_after = hist[k].header
            /\ \A i \in (hist[k].n_before + 1)..hist[k].n_after :
                   \A f \in HeaderKeys :
                       all_rows[i][f] = OrEmpty(hist[k].header[f])

C7_Witness ==
    \E k \in DOMAIN hist :
        /\ hist[k].has_claim_header
        /\ ~hist[k].legend
        /\ hist[k].n_after > hist[k].n_before
        /\ hist[k].ctx_before # NoneCtx
        /\ \E f \in HeaderKeys :
               hist[k].header[f] = None /\ hist[k].ctx_before[f] # None

\* the parsed rows assembled on the page of entry h
ParsedRows(h) ==
    [i \in 1..Len(h.assembled) |-> parse_service_row(h.assembled[i])]

\* the same, but none for a page whose rows are dropped for want of a context
KeptRows(h) == IF Orphan(h) THEN <<>> ELSE ParsedRows(h)

\* the row fields of the records, in the order of emission
EmittedRows == [i \in 1..Len(all_rows) |-> RowFields(all_rows[i])]

\* C8, as stated: the emitted records, projected to their row fields, are the
\* rows assembled from the pages, concatenated in document order.
C8_OrderAllRows ==
    EmittedRows = Concat([k \in 1..Len(hist) |-> ParsedRows(hist[k])],
                         1, Len(hist))

\* C8, amended: they are the rows assembled from the pages whose rows were not
\* dropped for want of a context, concatenated in document order.
C8_OrderKeptRows ==
    EmittedRows = Concat([k \in 1..Len(hist) |-> KeptRows(hist[k])],
                         1, Len(hist))

C8_Witness ==
    /\ Len(all_rows) >= 3
    /\ \E k \in DOMAIN hist : Orphan(hist[k]) /\ hist[k].assembled # <<>>
    /\ \E k \in DOMAIN hist : hist[k].n_after - hist[k].n_before >= 2

\* C11: parse_pdf_to_rows runs to completion on every document: no page
\* raises, and parse_service_row accepts every row that
\* assemble_rows_from_lines returned.
C11_NoAbnormalTermination ==
    /\ pc # "raised"
    /\ \A k \in DOMAIN hist : \A i \in 1..Len(hist[k].assembled) :
           parse_service_row(hist[k].assembled[i]) # AssertionError

C11_Witness ==
    /\ pc = "done"
    /\ Len(hist) = MaxPages
    /\ \E k \in DOMAIN hist :
           /\ hist[k].pending_before # None
           /\ hist[k - 1].legend
           /\ Len(hist[k].assembled) >= 2
           /\ hist[k].n_after = hist[k].n_before + 2

\* C12: every row assemble_rows_from_lines returned matches the canonical
\* shape, and once the document has ended the records are those appended by
\* the pages, whatever is left in pending_row.
C12_UnfinishedNeverEmitted ==
    /\ \A k \in DOMAIN hist : \A i \in 1..Len(hist[k].assembled) :
           SERVICE_ROW_RE(hist[k].assembled[i]).matched
    /\ (pc = "done" /\ hist # <<>>) =>
           /\ Len(all_rows) = hist[Len(hist)].n_after
           /\ EmittedRows = Concat([k \in 1..Len(hist) |-> KeptRows(hist[k])],
                                   1, Len(hist))
    /\ (pc = "done" /\ hist = <<>>) => all_rows = <<>>

C12_Witness ==
    /\ pc = "done"
    /\ pending_row # None
    /\ all_rows # <<>>
    /\ hist[Len(hist)].assembled # <<>>

\* C19: the first row of a page that began with a row pending is that row; when
\* it is emitted it carries the eight fields of the context in force after
\* the page's context update, which is the page's own header when the page
\* has a Claim header.
C19_SpanningRowStamp ==
    \A k \in DOMAIN hist :
        (hist[k].pending_before # None /\ hist[k].n_after > hist[k].n_before)
        => /\ RowFields(all_rows[hist[k].n_before + 1])
                = parse_service_row(hist[k].assembled[1])
           /\ \A f \in HeaderKeys :
                  all_rows[hist[k].n_before + 1][f] = OrEmpty(hist[k].ctx_after[f])
           /\ hist[k].has_claim_header => hist[k].ctx_after = hist[k].header

C19_Witness ==
    \E k \in DOMAIN hist :
        /\ hist[k].pending_before # None
        /\ hist[k].has_claim_header
        /\ hist[k].ctx_before # NoneCtx
        /\ hist[k].ctx_before["Claim"] # hist[k].header["Claim"]
        /\ hist[k].n_after > hist[k].n_before
        /\ all_rows[hist[k].n_before + 1]["Claim"] = hist[k].header["Claim"]

\* ------------------------------------------------------------ properties of
\* the currency tokens (SpecMoney)

\* the currency token of the row, and the field the record has for it
Token == row.amounts[1]

Billed == all_rows[1]["Provider Billed ($)"]

\* an optional minus, digits, a point and exactly two decimals
TwoDecimals(o) ==
    /\ DigitRun(o, Opt(o, 1, "-")) >= 1
    /\ Skip(o, Opt(o, 1, "-"), Digit) <= Len(o)
    /\ o[Skip(o, Opt(o, 1, "-"), Digit)] = "."
    /\ DigitRun(o, Skip(o, Opt(o, 1, "-"), Digit) + 1) = 2
    /\ Len(o) = Skip(o, Opt(o, 1, "-"), Digit) + 2

\* the token is wrapped in parentheses
Wrapped(t) == t[1] = "(" /\ t[Len(t)] = ")"

\* the token holds a minus
Minus(t) == \E k \in 1..Len(t) : t[k] = "-"

\* the amount of the token with two decimals: its digits and point, without
\* separators, symbol, sign and parentheses
Amount(t) == FormatDecimal2(SelectSeq(t, LAMBDA c : c \in Digit \cup {"."}))

\* C13: the row of every currency token is emitted, and its field is the
\* amount of the token with exactly two decimals, without separators and
\* symbol, negative for a token wrapped in parentheses (and for a token with
\* a minus that is not wrapped).
C13_CurrencyNormalization ==
    pc \in {"loop", "done"} =>
        /\ Len(all_rows) = 1
        /\ TwoDecimals(Billed)
        /\ Billed \in {Amount(Token), <<"-">> \o Amount(Token)}
        /\ Wrapped(Token) => Billed[1] = "-"
        /\ (~Wrapped(Token) /\ ~Minus(Token)) => Billed = Amount(Token)
        /\ (~Wrapped(Token) /\ Minus(Token)) => Billed = <<"-">> \o Amount(Token)

\* C14: the row of a currency token that is not numeric after stripping is
\* emitted with the field equal to the token as it stands in the row.
C14_LenientFallback ==
    pc \in {"loop", "done"} =>
        /\ Len(all_rows) = 1
        /\ ~IsDecimal(StripMoney(Token)) => Billed = Token

\* ------------------------------------------------------------ properties of
\* the assembler on arbitrary lines (SpecFeed)

\* the line of entry h, and the buffer with that line appended
Line(h) == h.lines[1]

Joined(h) == h.buf_before \o <<" ">> \o h.lines[1]

\* C15, as stated: normalize_page_text of every line that normalize_page_text
\* produced is the list of that line alone.
C15_Idempotent ==
    \A k \in DOMAIN hist : \A i \in DOMAIN hist[k].lines :
        normalize_page_text(hist[k].lines[i]) = <<hist[k].lines[i]>>

\* C15, amended: so it is for every line produced that is not empty; for the
\* empty line it is the empty list.
C15_IdempotentNonEmpty ==
    \A k \in DOMAIN hist : \A i \in DOMAIN hist[k].lines :
        normalize_page_text(hist[k].lines[i])
            = IF hist[k].lines[i] = <<>> THEN <<>> ELSE <<hist[k].lines[i]>>

C15_Witness ==
    \E k \in DOMAIN hist :
        /\ hist[k].lines # <<>>
        /\ Line(hist[k]) # <<>>
        /\ Line(hist[k]) # RawLines[hist[k].raw]
        /\ Len(Line(hist[k])) + 4 = Len(RawLines[hist[k].raw])

\* C16: a line that does not begin with a date token, consumed while buf is
\* null, leaves buf null and rows as they were; every row emitted and every
\* non-null buffer, carried over a page boundary or not, begins with a date
\* token.
C16_IdleNoise ==
    /\ \A k \in DOMAIN hist :
         /\ ( /\ hist[k].buf_before = None
              /\ hist[k].lines # <<>>
              /\ ~DATE_START_RE(Line(hist[k])) )
            => ( /\ hist[k].buf_after = None
                 /\ hist[k].rows_after = hist[k].rows_before )
         /\ hist[k].buf_after # None => DATE_START_RE(hist[k].buf_after)
         /\ \A i \in 1..Len(hist[k].rows_after) :
                DATE_START_RE(hist[k].rows_after[i])
    /\ buf # None => DATE_START_RE(buf)
    /\ pending_row # None => DATE_START_RE(pending_row)
    /\ \A i \in 1..Len(total) : DATE_START_RE(total[i])

C16_Witness ==
    /\ \E k \in DOMAIN hist :
           /\ hist[k].buf_before = None
           /\ Line(hist[k]) # <<>>
           /\ DateAt(Line(hist[k]), 1)
           /\ ~DATE_START_RE(Line(hist[k]))
    /\ total # <<>>
    /\ pending_row # None

\* the line of entry h was appended to the buffer with one space: the buffer
\* is the joined text, or the joined text was finalized
Appended(h) ==
    \/ /\ h.buf_after = Joined(h)
       /\ h.rows_after = h.rows_before
    \/ /\ h.buf_after = None
       /\ h.rows_after = Append(h.rows_before, OneLine(Joined(h)))

\* C17, as stated: while buf is not null every line is appended to it with
\* one space, whatever the line holds.
C17_AppendEveryLine ==
    \A k \in DOMAIN hist :
        (hist[k].buf_before # None /\ hist[k].lines # <<>>) => Appended(hist[k])

\* C17, amended: so is every line that is not empty; an empty line leaves buf
\* and rows as they were.
C17_AppendNonBlank ==
    \A k \in DOMAIN hist :
        (hist[k].buf_before # None /\ hist[k].lines # <<>>)
        => IF Line(hist[k]) # <<>> THEN Appended(hist[k])
           ELSE /\ hist[k].buf_after = hist[k].buf_before
                /\ hist[k].rows_after = hist[k].rows_before

C17_Witness ==
    /\ \E k \in DOMAIN hist :
           /\ hist[k].buf_before # None
           /\ Line(hist[k]) = HdrB
           /\ hist[k].buf_after = Joined(hist[k])
    /\ \E k \in DOMAIN hist :
           /\ hist[k].buf_before # None
           /\ DATE_START_RE(Line(hist[k]))
           /\ hist[k].buf_after = None
           /\ Len(hist[k].rows_after) = Len(hist[k].rows_before) + 1

\* null, or a text that begins with a date token and whose whitespace-normalized
\* form does not match the canonical shape
PendingOK(b) ==
    b # None => (DATE_START_RE(b) /\ ~SERVICE_ROW_RE(OneLine(b)).matched)

\* C18: after every line and at every page boundary the buffer is null or
\* begins with a date token and does not match the canonical shape; the
\* assembler is idle after a line that emitted a row, and a line after which
\* it has become idle emitted a row.
C18_PendingInvariant ==
    /\ PendingOK(buf)
    /\ PendingOK(pending_row)
    /\ \A k \in DOMAIN hist :
         /\ PendingOK(hist[k].buf_after)
         /\ Len(hist[k].rows_after) > Len(hist[k].rows_before)
              => hist[k].buf_after = None
         /\ (hist[k].buf_before # None /\ hist[k].buf_after = None)
              => Len(hist[k].rows_after) = Len(hist[k].rows_before) + 1

C18_Witness ==
    /\ brk # <<>>
    /\ pending_row # None
    /\ \E k \in DOMAIN hist :
           /\ k > brk[1]
           /\ hist[k].buf_before # None
           /\ hist[k].buf_after = None
    /\ \E k \in DOMAIN hist :
           /\ hist[k].buf_after # None
           /\ Len(Split(hist[k].buf_after)) >= 4

\* try_finalize of the buffer b returns a row exactly when the normalized
\* buffer matches the canonical shape, and then b holds at least
\* MinCurrencyTokens currency tokens
GateRedundant(b) ==
    IF SERVICE_ROW_RE(OneLine(b)).matched
    THEN /\ try_finalize(b) # None
         /\ CountCurrency(b, 1, MinCurrencyTokens) >= MinCurrencyTokens
    ELSE try_finalize(b) = None

\* the same for the buffers of entry h: the line taken as a buffer, which is
\* the buffer given to try_finalize when a date line starts one, and the buffer
\* with the line appended
GateRedundantAt(h) ==
    /\ h.lines # <<>> => GateRedundant(Line(h))
    /\ (h.lines # <<>> /\ h.buf_before # None) => GateRedundant(Joined(h))

\* C20: so it is for the buffers of the line consumed last, in every state of
\* the loop, and so for those of every line consumed.
C20_GateRedundant ==
    (pc = "feed" /\ hist # <<>>) => GateRedundantAt(hist[Len(hist)])

C20_Witness ==
    /\ \E k \in DOMAIN hist :
           /\ hist[k].buf_before # None
           /\ try_finalize(Joined(hist[k])) # None
    /\ \E k \in DOMAIN hist :
           /\ hist[k].buf_before # None
           /\ CountCurrency(Joined(hist[k]), 1, 7) >= 7
           /\ try_finalize(Joined(hist[k])) = None
    /\ \E k \in DOMAIN hist :
           /\ hist[k].buf_before = None
           /\ CountCurrency(Line(hist[k]), 1, 4) >= 4
           /\ try_finalize(Line(hist[k])) = None

\* ------------------------------------------------------------ properties of
\* the assembler (SpecAsm)

\* the rows returned so far, with those of the running call
AllRows == total \o rows

\* the number of units of the row
NumUnits == Len(Units(row))

\* the unit that ends the description
DescEnd == Len(row.desc) + 1

\* SERVICE_ROW_RE matches the normalized form of a text
Canonical(text) == SERVICE_ROW_RE(OneLine(text)).matched

\* the row as one unsplit line, and what the assembler gives for it alone
SingleLine == LineOf(row, 1, NumUnits)

Single == assemble_rows_from_lines(<<SingleLine>>, None)

\* the fields the row was built from
Embedded ==
       ("Service Date" :> row.date)
    @@ ("Services Provided" :> Join(<<" ">>, row.desc))
    @@ ("Provider Billed ($)" :> _money_to_str(row.amounts[1]))
    @@ ("DMBA Paid ($)" :> _money_to_str(row.amounts[2]))
    @@ ("Your Responsibility ($)" :> _money_to_str(row.amounts[3]))
    @@ ("Message Codes" :> row.codes)

\* the fragment on page A: the first line, which is not yet a canonical row
FragmentA == cuts # <<>> /\ ~Canonical(LineOf(row, 1, cuts[1]))

\* C1: with the row split into a date-led fragment that ends page A and the
\* remainder that starts page B, the two calls give one row in total, the row
\* of the unsplit line; A alone gives no row and a pending buffer, and nothing
\* is returned for it when the document ends there.
C1_CrossPage ==
    /\ (Len(cuts) = 1 /\ cuts[1] < NumUnits /\ FragmentA)
         => (AllRows = <<>> /\ buf # None)
    /\ (Len(cuts) = 2 /\ cuts[2] = NumUnits /\ brk = <<1>> /\ FragmentA)
         => (Len(Single.rows) = 1 /\ AllRows = Single.rows /\ buf = None)

C1_Witness ==
    /\ Len(cuts) = 2
    /\ cuts[2] = NumUnits
    /\ brk = <<1>>
    /\ FragmentA
    /\ cuts[1] > DescEnd
    /\ Len(AllRows) = 1
    /\ pc = "done"

\* the whole row was given as one line
OneLineCase == cuts = <<NumUnits>> /\ brk = <<>>

\* one row, the normalized line, and no pending buffer
EmitsSingle == AllRows = <<OneLine(SingleLine)>> /\ buf = None

\* parse_service_row gives the embedded fields back
Recovered == parse_service_row(OneLine(SingleLine)) = Embedded

\* the third amount holds a character that no code field holds, or no token of
\* the description has the shape of an amount
Unambiguous ==
    \/ \E i \in DOMAIN row.amounts[3] : row.amounts[3][i] \notin CodeCh
    \/ \A i \in DOMAIN Split(Join(<<" ">>, row.desc)) :
           ~IsCurrency(Split(Join(<<" ">>, row.desc))[i])

\* C9, as stated: a single canonical line gives one row, the normalized line,
\* and no pending buffer, and parse_service_row gives back the embedded date,
\* description, amounts and code field.
C9_RoundTrip == OneLineCase => (EmitsSingle /\ Recovered)

\* C9, amended: the fields are given back when the third amount holds a
\* character outside [A-Z0-9] or no token of the description is shaped like an
\* amount.
C9_RoundTripUnambiguous ==
    OneLineCase => (EmitsSingle /\ (Unambiguous => Recovered))

C9_Witness ==
    /\ OneLineCase
    /\ Unambiguous
    /\ Len(row.desc) >= 2
    /\ IsCurrency(row.desc[Len(row.desc)])
    /\ \E i \in DOMAIN row.codes : row.codes[i] \in Digit
    /\ Len(AllRows) = 1

\* Only lines of the description were given, the first with the date, and the
\* description can still end on its second or third line.
DescriptionLines ==
    /\ cuts # <<>>
    /\ brk = <<>>
    /\ cuts[1] >= 2
    /\ \/ Given = DescEnd /\ Len(cuts) \in {2, 3}
       \/ Given < DescEnd /\ Len(cuts) <= 2

\* The description was given on 2 or 3 lines and the amounts and the code field
\* on the line after them.
TailLineGiven ==
    /\ Len(cuts) \in {3, 4}
    /\ brk = <<>>
    /\ cuts[1] >= 2
    /\ cuts[Len(cuts) - 1] = DescEnd
    /\ Given = NumUnits

\* no line of the description ends a text that is already a canonical row
NoEarlyMatch ==
    \A i \in DOMAIN cuts :
        cuts[i] <= DescEnd => ~Canonical(LineOf(row, 1, cuts[i]))

\* no row before the tail line, and then the row of the single-line form
CrossLine ==
    /\ DescriptionLines => AllRows = <<>>
    /\ TailLineGiven => (AllRows = Single.rows /\ Len(AllRows) = 1 /\ buf = None)

\* C10, as stated: a row whose description is split over 2 or 3 lines, the
\* amounts and the code field on a later line, gives exactly one row, that of
\* the single-line form, and none before the tail line.
C10_CrossLine == CrossLine

\* C10, amended: the same when no line of the description ends a text that is
\* already a canonical row.
C10_CrossLineNoEarlyMatch == NoEarlyMatch => CrossLine

C10_Witness ==
    /\ TailLineGiven
    /\ Len(cuts) = 4
    /\ NoEarlyMatch
    /\ \E i \in DOMAIN row.desc : IsCurrency(row.desc[i])
    /\ Len(AllRows) = 1

====
